---- MODULE Spec2Model ----
(***************************************************************************)
(* Leyesamano: the query session kept by App (src/App.tsx) and the query   *)
(* service wrapper searchLegalInfo (src/services/geminiService.ts).        *)
(*                                                                         *)
(* Strings the code computes on (the input box, message texts, ids) are    *)
(* sequences of one-character strings; strings the code only passes along  *)
(* or tests for emptiness (uris, titles, error messages) are TLA+ strings, *)
(* "" being the JavaScript falsy string / a missing field.                 *)
(***************************************************************************)
EXTENDS Integers, Sequences, FiniteSets, TLC

\* ------------------------------------------------------------------ bounds
\* Number of generateSpeech calls a behaviour may issue.
MaxSpeaks == 3
\* Length of the byte sequences pcmToAudioBuffer is run on.
MaxBytes == 4
\* Longest groundingChunks list handed to the source extraction alone.
MaxChunks == 3
\* Number of searchLegalInfo calls a behaviour may issue.
MaxCalls == 2
\* Largest value Date.now() returns.
MaxClock == 1

\* ----------------------------------------------------------------- strings
\* What is typed into the input box: nothing, white space only, a question,
\* a question with white space around it.
InputTexts == {<<>>, <<" ">>, <<"a">>, <<" ", "a", " ">>}

IsSpace(c) == c = " "

\* String.prototype.trim, as used on inputValue.
RECURSIVE trimStart(_)
trimStart(s) ==
    IF s # <<>> /\ IsSpace(Head(s)) THEN trimStart(Tail(s)) ELSE s

RECURSIVE trimEnd(_)
trimEnd(s) ==
    IF s # <<>> /\ IsSpace(s[Len(s)])
    THEN trimEnd(SubSeq(s, 1, Len(s) - 1))
    ELSE s

trim(s) == trimEnd(trimStart(s))

Digits == <<"0", "1", "2", "3", "4", "5", "6", "7", "8", "9">>

\* Number.prototype.toString (decimal), as used on Date.now().
RECURSIVE toString(_)
toString(n) ==
    IF n < 10
    THEN <<Digits[n + 1]>>
    ELSE Append(toString(n \div 10), Digits[(n % 10) + 1])

\* searchState.error === null
Null == "<null>"

\* ------------------------------------------------- the provider's responses
\* Grounding chunks, by chunk.web.uri (missing, a well-formed URL, a string
\* new URL() rejects) and chunk.web.title (missing or present).
Chunk(uri, title) == [uri |-> uri, title |-> title]

NoUri == Chunk("", "")

Titled == Chunk("https://example.com/x", "Ley X")

Untitled == Chunk("https://congreso.gob.ar/ley", "")

Malformed == Chunk("ley 43", "")


\* new URL(uri) parses.
WellFormed(uri) == uri \in {"https://congreso.gob.ar/ley", "https://example.com/x"}

\* new URL(uri).hostname, of a well-formed uri.
hostname(uri) ==
    CASE uri = "https://congreso.gob.ar/ley" -> "congreso.gob.ar"
      [] uri = "https://example.com/x" -> "example.com"
      [] OTHER -> ""

NoResponse == [fails |-> TRUE, text |-> <<>>, chunks |-> <<>>]

\* A response with response.text and the groundingChunks (none: <<>>).
Response(text, chunks) == [fails |-> FALSE, text |-> text, chunks |-> chunks]

\* What ai.models.generateContent settles to: a rejection, or a response
\* without text, without chunks, with chunks of each kind.
Responses ==
    {NoResponse,
     Response(<<>>, <<>>),
     Response(<<"r">>, <<>>),
     Response(<<"r">>, <<NoUri>>),
     Response(<<"r">>, <<Untitled>>),
     Response(<<"r">>, <<Malformed>>),
     Response(<<"r">>, <<Untitled, NoUri, Titled>>),
     Response(<<"r">>, <<Titled, Malformed>>)}

\* ---------------------------------------------------------- searchLegalInfo
FALLBACK_TEXT == <<"L", "o", " ", "s", "i", "e", "n", "t", "o">>

SEARCH_ERROR ==
    "Hubo un error al consultar el asistente legal. Por favor intenta de nuevo."

DEFAULT_ERROR == "Ocurrio un error inesperado."

\* response.text || "Lo siento, ..."
answerText(text) == IF text = <<>> THEN FALLBACK_TEXT ELSE text

\* A faulty source: the title is always taken from the URL.
sourceHostOnly(chunk) == [uri |-> chunk.uri, title |-> hostname(chunk.uri)]

\* One pushed source: chunk.web.title || new URL(chunk.web.uri).hostname.
source(chunk) ==
    [uri |-> chunk.uri,
     title |-> IF chunk.title # "" THEN chunk.title ELSE hostname(chunk.uri)]

\* new URL(chunk.web.uri) is evaluated, and throws.
urlThrows(chunk) ==
    chunk.uri # "" /\ chunk.title = "" /\ ~WellFormed(chunk.uri)

\* chunks.forEach(...): the sources pushed, or the exception of new URL().
RECURSIVE extractSources(_)
extractSources(chunks) ==
    IF chunks = <<>>
    THEN [threw |-> FALSE, sources |-> <<>>]
    ELSE LET chunk == Head(chunks)
             rest == extractSources(Tail(chunks))
         IN  IF chunk.uri = "" THEN rest
             ELSE IF urlThrows(chunk) \/ rest.threw
                  THEN [threw |-> TRUE, sources |-> <<>>]
                  ELSE [threw |-> FALSE,
                        sources |-> <<source(chunk)>> \o rest.sources]

\* What the promise of searchLegalInfo settles to, given the provider's
\* outcome: resolved with {text, sources}, or rejected with the fixed Error.
searchLegalInfo(resp) ==
    LET ex == extractSources(resp.chunks)
    IN  IF resp.fails \/ ex.threw
        THEN [ok |-> FALSE, text |-> <<>>, sources |-> <<>>,
              message |-> SEARCH_ERROR]
        ELSE [ok |-> TRUE, text |-> answerText(resp.text),
              sources |-> ex.sources, message |-> ""]

\* The jurisdiction selectors: the <select> of COUNTRIES ("" is "Seleccionar
\* Pais...") and the free-text state / province box.
Countries == {"", "Argentina"}

States == {"", "Madrid"}

\* A faulty query: the state is only named when a country is.
contextualizedQueryNested(query, country, state) ==
    IF country # ""
    THEN <<"Contexto Legal (", "Pais: ", country>>
         \o (IF state # "" THEN <<", Estado/Region: ", state>> ELSE <<>>)
         \o <<"). Pregunta del usuario: ">> \o query
    ELSE query

\* contextualizedQuery, the contents sent to the provider: a template
\* literal, kept as the sequence of its pieces followed by the query.
contextualizedQuery(query, country, state) ==
    LET contextString ==
            (IF country # "" THEN <<"Pais: ", country>> ELSE <<>>)
            \o (IF state # "" THEN <<", Estado/Region: ", state>> ELSE <<>>)
    IN  IF contextString # <<>>
        THEN <<"Contexto Legal (">> \o contextString
             \o <<"). Pregunta del usuario: ">> \o query
        ELSE query

\* ------------------------------------------------------------------- state
VARIABLES
    messages,     \* useState<ChatMessage[]>: the turn list
    inputValue,   \* useState(''): the input box
    searchState,  \* useState<SearchState>: isLoading, error, hasSearched
    now,          \* the value Date.now() returned last
    inflight,     \* the searchLegalInfo calls awaited by a handleSearch
    issued,       \* how many searchLegalInfo calls were made so far
    lastEvent,    \* history: the handler that ran last, and its outcome
    selectedCountry,  \* useState(''): the country selector
    selectedState,    \* useState(''): the state / province box
    groundingChunks,  \* the chunks handed to the source extraction alone
    extracted,        \* what the source extraction made of them
    mounted,          \* the assistant turns whose ChatMessage is mounted
    isPlaying,        \* useState(false), per ChatMessage
    isLoadingAudio,   \* useState(false), per ChatMessage
    audioContextRef,  \* useRef(null), per ChatMessage: a context id, or 0
    sourceRef,        \* useRef(null), per ChatMessage: a source id, or 0
    openContexts,     \* the AudioContexts created and not closed
    sounding,         \* the buffer sources started, not stopped nor ended
    speech,           \* the generateSpeech calls awaited by a handleSpeak
    spoken,           \* how many generateSpeech calls were made so far
    pcmData,          \* the binary string a payload stands for
    pcmResult         \* what decode and pcmToAudioBuffer made of it

\* The jurisdiction context.
context == <<selectedCountry, selectedState>>

\* The source extraction run alone, on any list of chunks.
extractVars == <<groundingChunks, extracted>>

\* The ChatMessage components and the audio they own.
playVars ==
    <<mounted, isPlaying, isLoadingAudio, audioContextRef, sourceRef,
      openContexts, sounding, speech, spoken>>

\* The conversion of a payload, taken alone.
pcmVars == <<pcmData, pcmResult>>

\* What the session does not touch.
others == <<extractVars, playVars, pcmVars>>

vars ==
    <<messages, inputValue, searchState, now, inflight, issued, lastEvent,
      context, others>>

\* A history record. ok: the submit was accepted / the promise resolved;
\* call, stale, resp: the awaited call that settled and what it settled to.
Event(op, ok, call, stale, resp) ==
    [op |-> op, ok |-> ok, call |-> call, stale |-> stale, resp |-> resp]

NotExtracted == [done |-> FALSE, threw |-> FALSE, sources |-> <<>>]

\* const [messages, setMessages] = useState([]) and the other hooks of App.
InitApp ==
    /\ messages = <<>>
    /\ inputValue = <<>>
    /\ searchState = [isLoading |-> FALSE, error |-> Null, hasSearched |-> FALSE]
    /\ now = 0
    /\ inflight = {}
    /\ issued = 0
    /\ lastEvent = Event("init", FALSE, 0, FALSE, NoResponse)
    /\ selectedCountry = ""
    /\ selectedState = ""

\* No turn yet, no ChatMessage mounted.
NoPlayback ==
    /\ mounted = {}
    /\ isPlaying = <<>>
    /\ isLoadingAudio = <<>>
    /\ audioContextRef = <<>>
    /\ sourceRef = <<>>
    /\ openContexts = {}
    /\ sounding = {}
    /\ speech = {}
    /\ spoken = 0

\* No payload converted outside of a playback.
NotConverted == [done |-> FALSE, threw |-> FALSE, channelData |-> <<>>]

NoConversion ==
    /\ pcmData = <<>>
    /\ pcmResult = NotConverted

Init ==
    /\ InitApp
    /\ groundingChunks = <<>>
    /\ extracted = NotExtracted
    /\ NoPlayback
    /\ NoConversion

\* Date.now(): any value from the last one returned on.
DateNow == now..MaxClock

\* onChange={(e) => setInputValue(e.target.value)}
setInputValue(v) ==
    /\ inputValue' = v
    /\ lastEvent' = Event("setInputValue", FALSE, 0, FALSE, NoResponse)
    /\ UNCHANGED <<messages, searchState, now, inflight, issued, context>>

\* onChange={(e) => setSelectedCountry(e.target.value)}
setSelectedCountry(v) ==
    /\ selectedCountry' = v
    /\ lastEvent' = Event("setSelectedCountry", FALSE, 0, FALSE, NoResponse)
    /\ UNCHANGED <<messages, inputValue, searchState, now, inflight, issued,
                   selectedState>>

\* onChange={(e) => setSelectedState(e.target.value)}
setSelectedState(v) ==
    /\ selectedState' = v
    /\ lastEvent' = Event("setSelectedState", FALSE, 0, FALSE, NoResponse)
    /\ UNCHANGED <<messages, inputValue, searchState, now, inflight, issued,
                   selectedCountry>>

\* A faulty append: the new turn replaces the list.
replaceAll(prev, msg) == <<msg>>

\* prev => [...prev, msg]
append(prev, msg) == Append(prev, msg)

\* A faulty guard: the input is tested untrimmed.
rejectsNoTrim == inputValue = <<>> \/ searchState.isLoading

\* A faulty guard: the isLoading test is missing.
rejectsNoLoadingCheck == trim(inputValue) = <<>>

\* if (!inputValue.trim() || searchState.isLoading) return;
rejects == trim(inputValue) = <<>> \/ searchState.isLoading

\* A faulty user turn: text is inputValue, not the trimmed query.
userMessageUntrimmed(t) ==
    [id |-> toString(t), role |-> "user", text |-> inputValue, sources |-> <<>>]

\* The user turn (its timestamp field, read by no code, is left out).
userMessage(t) ==
    [id |-> toString(t), role |-> "user", text |-> trim(inputValue),
     sources |-> <<>>]

\* setSearchState({ isLoading: true, error: null, hasSearched: true })
submittedState == [isLoading |-> TRUE, error |-> Null, hasSearched |-> TRUE]

\* handleSearch up to its await: the early return, or the user turn, the
\* loading state and the call of searchLegalInfo.
handleSearch ==
    \/ /\ rejects
       /\ lastEvent' = Event("handleSearch", FALSE, 0, FALSE, NoResponse)
       /\ UNCHANGED <<messages, inputValue, searchState, now, inflight, issued,
                      context>>
    \/ /\ ~rejects
       /\ issued < MaxCalls
       /\ \E t \in DateNow :
            /\ messages' = append(messages, userMessage(t))
            /\ now' = t
       /\ inputValue' = <<>>
       /\ searchState' = submittedState
       /\ inflight' = inflight \cup
            {[id |-> issued + 1,
              query |-> contextualizedQuery(trim(inputValue), selectedCountry,
                                            selectedState),
              stale |-> FALSE]}
       /\ issued' = issued + 1
       /\ lastEvent' = Event("handleSearch", TRUE, issued + 1, FALSE, NoResponse)
       /\ UNCHANGED context

\* A faulty assistant turn: the sources are not carried over.
aiMessageNoSources(response, t) ==
    [id |-> toString(t + 1), role |-> "model", text |-> response.text,
     sources |-> <<>>]

\* The assistant turn (its timestamp field left out).
aiMessage(response, t) ==
    [id |-> toString(t + 1), role |-> "model", text |-> response.text,
     sources |-> response.sources]

\* A faulty success branch: isLoading is left as it is.
doneLoadingKept(prev) == prev

\* prev => ({ ...prev, isLoading: false })
doneLoading(prev) == [prev EXCEPT !.isLoading = FALSE]

\* A faulty catch block: the error is not recorded.
failedNoMessage(prev, error) == [prev EXCEPT !.isLoading = FALSE]

\* prev => ({ ...prev, isLoading: false, error: error.message || "..." })
failed(prev, error) ==
    [prev EXCEPT !.isLoading = FALSE,
                 !.error = IF error.message # "" THEN error.message
                           ELSE DEFAULT_ERROR]

\* handleSearch from its await on: the awaited call c settles, the provider
\* having answered resp; the try block continues or the catch block runs.
handleSearchSettled(c, resp) ==
    LET response == searchLegalInfo(resp)
    IN  /\ c \in inflight
        /\ inflight' = inflight \ {c}
        /\ lastEvent' = Event("settled", response.ok, c.id, c.stale, resp)
        /\ \/ /\ response.ok
              /\ \E t \in DateNow :
                   /\ messages' = append(messages, aiMessage(response, t))
                   /\ now' = t
              /\ searchState' = doneLoading(searchState)
           \/ /\ ~response.ok
              /\ searchState' = failed(searchState, response)
              /\ UNCHANGED <<messages, now>>
        /\ UNCHANGED <<inputValue, issued, context>>

\* A faulty reset: error is carried over.
resetKeepsError ==
    [hasSearched |-> FALSE, isLoading |-> FALSE, error |-> searchState.error]

\* setSearchState({ hasSearched: false, isLoading: false, error: null })
resetState == [hasSearched |-> FALSE, isLoading |-> FALSE, error |-> Null]

\* The header's onClick: the three state setters of one event, one render.
\* The calls in flight are not told: they are only marked, for the history.
reset ==
    /\ searchState' = resetState
    /\ messages' = <<>>
    /\ inputValue' = <<>>
    /\ inflight' = {[c EXCEPT !.stale = TRUE] : c \in inflight}
    /\ lastEvent' = Event("reset", FALSE, 0, FALSE, NoResponse)
    /\ UNCHANGED <<now, issued, context>>

\* The session, its jurisdiction selectors left alone.
Next ==
    \/ (\E v \in InputTexts : setInputValue(v)) /\ UNCHANGED others
    \/ handleSearch /\ UNCHANGED others
    \/ (\E c \in inflight, resp \in Responses : handleSearchSettled(c, resp))
          /\ UNCHANGED others
    \/ reset /\ UNCHANGED others

Spec == Init /\ [][Next]_vars

\* The session with its jurisdiction selectors, the header left alone.
NextContext ==
    \/ (\E v \in InputTexts : setInputValue(v)) /\ UNCHANGED others
    \/ (\E v \in Countries : setSelectedCountry(v)) /\ UNCHANGED others
    \/ (\E v \in States : setSelectedState(v)) /\ UNCHANGED others
    \/ handleSearch /\ UNCHANGED others
    \/ (\E c \in inflight, resp \in Responses : handleSearchSettled(c, resp))
          /\ UNCHANGED others

SpecContext == Init /\ [][NextContext]_vars

\* ------------------------------------------------ the source extraction alone
\* Chunks of every kind, two of them with the same uri.
ExtractChunks ==
    {NoUri, Titled, Untitled, Malformed,
     Chunk("https://congreso.gob.ar/ley", "Ley X")}

ChunkLists == UNION {[1..k -> ExtractChunks] : k \in 0..MaxChunks}

InitExtract ==
    /\ InitApp
    /\ groundingChunks \in ChunkLists
    /\ extracted = NotExtracted
    /\ NoPlayback
    /\ NoConversion

\* The forEach of searchLegalInfo over groundingChunks.
extract ==
    /\ ~extracted.done
    /\ LET ex == extractSources(groundingChunks)
       IN  extracted' =
             [done |-> TRUE, threw |-> ex.threw, sources |-> ex.sources]
    /\ UNCHANGED <<messages, inputValue, searchState, now, inflight, issued,
                   lastEvent, context, groundingChunks, playVars, pcmVars>>

SpecExtract == InitExtract /\ [][extract]_vars

\* ------------------------------------------------- ChatMessage: the playback
\* What generateSpeech is answered: the base64 string of inlineData.data,
\* kept as what atob makes of it (valid: atob does not throw; binary: the char
\* codes of the binary string); none: the response carries no data.
Payload(valid, binary) ==
    [fails |-> FALSE, none |-> FALSE, valid |-> valid, binary |-> binary]

SpeechFails == [fails |-> TRUE, none |-> FALSE, valid |-> FALSE, binary |-> <<>>]

NoAudio == [fails |-> FALSE, none |-> TRUE, valid |-> FALSE, binary |-> <<>>]

\* What the provider's speech call settles to: a rejection, no data, a string
\* atob rejects, white space only, bytes in odd and in even number.
SpeechResults ==
    {SpeechFails, NoAudio,
     Payload(FALSE, <<>>),
     Payload(TRUE, <<>>),
     Payload(TRUE, <<0, 128, 7>>),
     Payload(TRUE, <<0, 128, 255, 127>>)}

\* generateSpeech: the base64 string returned, or the exception thrown.
generateSpeech(result) ==
    [threw |-> result.fails \/ result.none, base64Audio |-> result]

\* decode: atob, then the char codes copied into a Uint8Array.
decode(base64) ==
    [threw |-> ~base64.valid,
     bytes |-> [i \in 1..Len(base64.binary) |-> base64.binary[i]]]

\* A faulty view of the bytes: the pair read as an unsigned integer.
Int16Unsigned(lo, hi) == lo + 256 * hi

\* One element of new Int16Array(data.buffer): two bytes, little-endian,
\* two's complement.
Int16(lo, hi) ==
    LET v == lo + 256 * hi IN IF v >= 32768 THEN v - 65536 ELSE v

\* pcm16[i] / 32768.0, kept as a fraction.
normalized(sample) == [num |-> sample, den |-> 32768]

\* A faulty conversion: a trailing odd byte is dropped.
pcmToAudioBufferTruncating(data) ==
    LET frameCount == Len(data) \div 2
    IN  [threw |-> frameCount = 0,
         channelData |->
            [i \in 1..frameCount |->
                normalized(Int16(data[2 * i - 1], data[2 * i]))]]

\* pcmToAudioBuffer: new Int16Array throws a RangeError on an odd byte
\* length, ctx.createBuffer a NotSupportedError on a length of 0.
pcmToAudioBuffer(data) ==
    LET frameCount == Len(data) \div 2
    IN  IF Len(data) % 2 # 0 \/ frameCount = 0
        THEN [threw |-> TRUE, channelData |-> <<>>]
        ELSE [threw |-> FALSE,
              channelData |->
                 [i \in 1..frameCount |->
                     normalized(Int16(data[2 * i - 1], data[2 * i]))]]

\* The bytes the conversion is run on, the extremes of a byte among them.
ByteValues == {0, 1, 127, 128, 255}

ByteLists == UNION {[1..n -> ByteValues] : n \in 0..MaxBytes}

\* A payload of any of these binary strings, handed to the conversion.
InitDecode ==
    /\ InitApp
    /\ groundingChunks = <<>>
    /\ extracted = NotExtracted
    /\ NoPlayback
    /\ pcmData \in ByteLists
    /\ pcmResult = NotConverted

\* decode, then pcmToAudioBuffer, as handleSpeak chains them.
convert ==
    LET audioBytes == decode(Payload(TRUE, pcmData))
        audioBuffer == pcmToAudioBuffer(audioBytes.bytes)
    IN  /\ ~pcmResult.done
        /\ pcmResult' = [done |-> TRUE,
                         threw |-> audioBytes.threw \/ audioBuffer.threw,
                         channelData |-> audioBuffer.channelData]
        /\ UNCHANGED <<messages, inputValue, searchState, now, inflight,
                       issued, lastEvent, context, extractVars, playVars,
                       pcmData>>

SpecDecode == InitDecode /\ [][convert]_vars

\* What the speak button shows: the spinner, the stop icon, the speaker.
PlaybackState(k) ==
    IF isLoadingAudio[k] THEN "Loading"
    ELSE IF isPlaying[k] THEN "Playing" ELSE "Idle"

\* The session after two questions were asked and answered.
Conversation ==
    <<[id |-> toString(0), role |-> "user", text |-> <<"a">>, sources |-> <<>>],
      [id |-> toString(1), role |-> "model", text |-> <<"r">>, sources |-> <<>>],
      [id |-> toString(2), role |-> "user", text |-> <<"a">>, sources |-> <<>>],
      [id |-> toString(3), role |-> "model", text |-> FALLBACK_TEXT,
       sources |-> <<source(Untitled)>>]>>

\* The turns with a speak button: {!isUser && <button ...>}.
Speakers == {k \in 1..Len(Conversation) : Conversation[k].role = "model"}

InitPlay ==
    /\ messages = Conversation
    /\ inputValue = <<>>
    /\ searchState = [isLoading |-> FALSE, error |-> Null, hasSearched |-> TRUE]
    /\ now = 2
    /\ inflight = {}
    /\ issued = 2
    /\ lastEvent = Event("settled", TRUE, 2, FALSE, Response(<<>>, <<Untitled>>))
    /\ selectedCountry = ""
    /\ selectedState = ""
    /\ groundingChunks = <<>>
    /\ extracted = NotExtracted
    /\ mounted = Speakers
    /\ isPlaying = [k \in Speakers |-> FALSE]
    /\ isLoadingAudio = [k \in Speakers |-> FALSE]
    /\ audioContextRef = [k \in Speakers |-> 0]
    /\ sourceRef = [k \in Speakers |-> 0]
    /\ openContexts = {}
    /\ sounding = {}
    /\ speech = {}
    /\ spoken = 0
    /\ NoConversion

\* A state setter of a ChatMessage: without effect once it is unmounted.
setState(state, k, v) ==
    IF k \in mounted THEN [state EXCEPT ![k] = v] ELSE state

\* A faulty stopAudio: the source is dropped without being stopped.
stopAudioNoStop(K) ==
    /\ sounding' = sounding
    /\ sourceRef' = [k \in DOMAIN sourceRef |->
                        IF k \in K THEN 0 ELSE sourceRef[k]]
    /\ openContexts' = {c \in openContexts :
                          \A k \in K : c.id # audioContextRef[k]}
    /\ audioContextRef' = [k \in DOMAIN audioContextRef |->
                              IF k \in K THEN 0 ELSE audioContextRef[k]]
    /\ isPlaying' = [k \in DOMAIN isPlaying |->
                        IF k \in K THEN FALSE ELSE isPlaying[k]]

\* stopAudio, run by each ChatMessage of K: the source stopped and forgotten,
\* the context closed and forgotten, setIsPlaying(false). (The ended event
\* of a stopped source finds isPlaying false and sourceRef null already.)
stopAudio(K) ==
    /\ sounding' = {s \in sounding : \A k \in K : s.id # sourceRef[k]}
    /\ sourceRef' = [k \in DOMAIN sourceRef |->
                        IF k \in K THEN 0 ELSE sourceRef[k]]
    /\ openContexts' = {c \in openContexts :
                          \A k \in K : c.id # audioContextRef[k]}
    /\ audioContextRef' = [k \in DOMAIN audioContextRef |->
                              IF k \in K THEN 0 ELSE audioContextRef[k]]
    /\ isPlaying' = [k \in DOMAIN isPlaying |->
                        IF k \in K THEN FALSE ELSE isPlaying[k]]

\* handleSpeak up to its await: the stop of a playing turn, or the spinner
\* and the call of generateSpeech.
handleSpeak(k) ==
    \/ /\ isPlaying[k]
       /\ stopAudio({k})
       /\ lastEvent' = Event("handleSpeak", FALSE, k, FALSE, NoResponse)
       /\ UNCHANGED <<isLoadingAudio, speech, spoken>>
    \/ /\ ~isPlaying[k]
       /\ spoken < MaxSpeaks
       /\ isLoadingAudio' = setState(isLoadingAudio, k, TRUE)
       /\ speech' = speech \cup {[id |-> spoken + 1, turn |-> k]}
       /\ spoken' = spoken + 1
       /\ lastEvent' = Event("handleSpeak", TRUE, k, FALSE, NoResponse)
       /\ UNCHANGED <<isPlaying, audioContextRef, sourceRef, openContexts,
                      sounding>>

\* A faulty button: enabled while the spinner shows.
clickSpeakEnabled(k) ==
    /\ k \in mounted
    /\ handleSpeak(k)
    /\ UNCHANGED <<mounted, messages, inputValue, searchState, now, inflight,
                   issued, context, extractVars, pcmVars>>

\* <button onClick={handleSpeak} disabled={isLoadingAudio}>
clickSpeak(k) ==
    /\ k \in mounted
    /\ ~isLoadingAudio[k]
    /\ handleSpeak(k)
    /\ UNCHANGED <<mounted, messages, inputValue, searchState, now, inflight,
                   issued, context, extractVars,
                   pcmVars>>

\* handleSpeak from its await on: the awaited call c settles, the provider
\* having answered result. The context is created before the payload is
\* decoded; an exception leaves it open and referenced.
speechSettled(c, result) ==
    LET k == c.turn
        speechResult == generateSpeech(result)
        ctx == [id |-> c.id, turn |-> k]
        audioBytes == decode(speechResult.base64Audio)
        audioBuffer == pcmToAudioBuffer(audioBytes.bytes)
        plays == ~speechResult.threw /\ ~audioBytes.threw /\ ~audioBuffer.threw
    IN  /\ c \in speech
        /\ speech' = speech \ {c}
        /\ lastEvent' = Event("speechSettled", plays, k, k \notin mounted, result)
        /\ IF speechResult.threw
           THEN UNCHANGED <<openContexts, audioContextRef>>
           ELSE /\ openContexts' = openContexts \cup {ctx}
                /\ audioContextRef' = [audioContextRef EXCEPT ![k] = ctx.id]
        /\ IF plays
           THEN /\ sounding' = sounding \cup
                     {[id |-> c.id, turn |-> k,
                       buffer |-> audioBuffer.channelData]}
                /\ sourceRef' = [sourceRef EXCEPT ![k] = c.id]
                /\ isPlaying' = setState(isPlaying, k, TRUE)
           ELSE UNCHANGED <<sounding, sourceRef, isPlaying>>
        /\ isLoadingAudio' = setState(isLoadingAudio, k, FALSE)
        /\ UNCHANGED <<mounted, spoken, messages, inputValue, searchState, now,
                       inflight, issued, context, extractVars,
                   pcmVars>>

\* A faulty onended: the state of the ChatMessage is left as it was.
onendedKeepsPlaying(s) ==
    /\ s \in sounding
    /\ sounding' = sounding \ {s}
    /\ sourceRef' = [sourceRef EXCEPT ![s.turn] = 0]
    /\ lastEvent' = Event("onended", FALSE, s.turn, s.turn \notin mounted,
                          NoResponse)
    /\ UNCHANGED <<mounted, isPlaying, isLoadingAudio, audioContextRef,
                   openContexts, speech, spoken, messages, inputValue,
                   searchState, now, inflight, issued, context, extractVars,
                   pcmVars>>

\* source.onended, the playback of s having reached the end of its buffer.
onended(s) ==
    /\ s \in sounding
    /\ sounding' = sounding \ {s}
    /\ isPlaying' = setState(isPlaying, s.turn, FALSE)
    /\ sourceRef' = [sourceRef EXCEPT ![s.turn] = 0]
    /\ lastEvent' = Event("onended", FALSE, s.turn, s.turn \notin mounted,
                          NoResponse)
    /\ UNCHANGED <<mounted, isLoadingAudio, audioContextRef, openContexts,
                   speech, spoken, messages, inputValue, searchState, now,
                   inflight, issued, context, extractVars,
                   pcmVars>>

\* The cleanup of useEffect(..., []) of every mounted ChatMessage, run when
\* setMessages([]) removes them; their state is gone with them.
unmount ==
    /\ stopAudio(mounted)
    /\ mounted' = {}
    /\ isLoadingAudio' = [k \in DOMAIN isLoadingAudio |-> FALSE]
    /\ UNCHANGED <<speech, spoken>>

\* The turns of a finished conversation, spoken, stopped and reset.
NextPlay ==
    \/ \E k \in Speakers : clickSpeak(k)
    \/ \E c \in speech, result \in SpeechResults : speechSettled(c, result)
    \/ \E s \in sounding : onended(s)
    \/ reset /\ unmount /\ UNCHANGED <<extractVars, pcmVars>>

SpecPlay == InitPlay /\ [][NextPlay]_vars

\* A buffer is finite: a source that is not stopped reaches its end, and the
\* browser then delivers its ended event.
SpecPlayFair ==
    /\ SpecPlay
    /\ \A k \in Speakers :
          WF_vars(\E s \in sounding : s.turn = k /\ onended(s))

\* ------------------------------------------------------------------ claims
\* Steps are told apart by lastEvent', which every handler sets.
Submitted == lastEvent'.op = "handleSearch"

Settled == lastEvent'.op = "settled"

Last(seq) == seq[Len(seq)]

IsPrefix(s, t) == Len(s) <= Len(t) /\ SubSeq(t, 1, Len(s)) = s

\* s holds white space only.
IsBlank(s) == \A k \in 1..Len(s) : IsSpace(s[k])

\* t is s without the white space at its two ends.
IsTrimOf(t, s) ==
    /\ t # <<>>
    /\ ~IsSpace(t[1])
    /\ ~IsSpace(t[Len(t)])
    /\ \E i \in 0..Len(s) :
         /\ IsBlank(SubSeq(s, 1, i))
         /\ SubSeq(s, i + 1, i + Len(t)) = t
         /\ IsBlank(SubSeq(s, i + Len(t) + 1, Len(s)))

\* C1 (as claimed): when a call that was in flight at a reset later resolves
\* successfully, no turn is appended: the turn list is left as it was.
C1_StaleResultDiscarded ==
    [][(Settled /\ lastEvent'.stale /\ lastEvent'.ok) => messages' = messages]_vars

\* C2: a handleSearch run while isLoading is true changes nothing: no turn is
\* appended, no call of searchLegalInfo is made or queued; and while isLoading
\* is true a turn is appended only by a settling call.
C2_SubmitWhileQueryingRejected ==
    [][/\ (Submitted /\ searchState.isLoading) =>
            /\ ~lastEvent'.ok
            /\ UNCHANGED <<messages, searchState, inflight, issued>>
       /\ (searchState.isLoading /\ Len(messages') > Len(messages)) => Settled
      ]_vars

\* A submit was rejected though the input box held a question.
C2_Witness ==
    /\ lastEvent.op = "handleSearch"
    /\ ~lastEvent.ok
    /\ searchState.isLoading
    /\ ~IsBlank(inputValue)

\* C3 (as claimed): at most one call of searchLegalInfo is outstanding.
C3_AtMostOneInFlight == Cardinality(inflight) <= 1

\* C4 (as claimed): a call that was in flight at a reset changes neither
\* error nor isLoading when it settles.
C4_StaleSettleNotApplied ==
    [][(Settled /\ lastEvent'.stale) =>
          /\ searchState'.error = searchState.error
          /\ searchState'.isLoading = searchState.isLoading]_vars

\* C5: a handleSearch run with a question in the box and isLoading false
\* appends, in that step and with the call still outstanding, exactly one user
\* turn whose text is the trimmed input, and sets isLoading, clears error and
\* sets hasSearched.
C5_AcceptedSubmit ==
    [][(Submitted /\ ~IsBlank(inputValue) /\ ~searchState.isLoading) =>
          /\ Len(messages') = Len(messages) + 1
          /\ IsPrefix(messages, messages')
          /\ Last(messages').role = "user"
          /\ IsTrimOf(Last(messages').text, inputValue)
          /\ searchState'.isLoading
          /\ searchState'.error = Null
          /\ searchState'.hasSearched
          /\ \E c \in inflight' \ inflight : c.id = lastEvent'.call]_vars

\* A question was accepted after an earlier turn, its call outstanding.
C5_Witness ==
    /\ lastEvent.op = "handleSearch"
    /\ lastEvent.ok
    /\ Len(messages) > 1
    /\ Last(messages).text = <<"a">>
    /\ \E c \in inflight : c.id = lastEvent.call /\ ~c.stale

\* C6: when a call made since the last reset resolves, exactly one assistant
\* turn is appended at the end, with the text searchLegalInfo returned (the
\* provider's text when it gave one) and the sources extracted from the
\* provider's chunks, and isLoading becomes false.
C6_SuccessAppendsAssistantTurn ==
    [][(Settled /\ lastEvent'.ok /\ ~lastEvent'.stale) =>
          /\ Len(messages') = Len(messages) + 1
          /\ IsPrefix(messages, messages')
          /\ Last(messages').role = "model"
          /\ Last(messages').text = searchLegalInfo(lastEvent'.resp).text
          /\ (lastEvent'.resp.text # <<>> =>
                  Last(messages').text = lastEvent'.resp.text)
          /\ Last(messages').sources = extractSources(lastEvent'.resp.chunks).sources
          /\ ~searchState'.isLoading]_vars

\* A current call resolved with two sources, after its user turn.
C6_Witness ==
    /\ lastEvent.op = "settled"
    /\ lastEvent.ok
    /\ ~lastEvent.stale
    /\ Len(messages) >= 2
    /\ Last(messages).role = "model"
    /\ Len(Last(messages).sources) = 2
    /\ ~searchState.isLoading

\* C7: when a call fails, error is set to a non-empty message, isLoading
\* becomes false and the turn list is unchanged.
C7_FailureSetsError ==
    [][(Settled /\ ~lastEvent'.ok) =>
          /\ searchState'.error \notin {Null, ""}
          /\ ~searchState'.isLoading
          /\ messages' = messages]_vars

\* A current call failed; its user turn stays last, unanswered.
C7_Witness ==
    /\ lastEvent.op = "settled"
    /\ ~lastEvent.ok
    /\ ~lastEvent.stale
    /\ messages # <<>>
    /\ Last(messages).role = "user"
    /\ searchState.error = SEARCH_ERROR

\* C8: a handleSearch run with an input that is empty after trimming changes
\* nothing and makes no call of searchLegalInfo.
C8_BlankSubmitNoOp ==
    [][(Submitted /\ IsBlank(inputValue)) =>
          /\ ~lastEvent'.ok
          /\ UNCHANGED <<messages, searchState, inputValue, inflight, issued>>
      ]_vars

\* A white-space input was submitted with no query in flight, and rejected.
C8_Witness ==
    /\ lastEvent.op = "handleSearch"
    /\ ~lastEvent.ok
    /\ inputValue = <<" ">>
    /\ ~searchState.isLoading

\* C9: the state right after reset has no turns, no error and hasSearched
\* false, whatever came before.
C9_ResetClears ==
    lastEvent.op = "reset" =>
        /\ messages = <<>>
        /\ searchState.error = Null
        /\ ~searchState.hasSearched

\* reset ran while a call was in flight.
C9_Witness ==
    /\ lastEvent.op = "reset"
    /\ inflight # {}
    /\ messages = <<>>

\* C10: in every step but reset, the turn list before the step is a prefix
\* of the turn list after it.
C10_AppendOnly ==
    [][lastEvent'.op # "reset" => IsPrefix(messages, messages')]_vars

\* Two questions were asked and answered.
C10_Witness ==
    /\ Len(messages) = 4
    /\ messages[1].role = "user"
    /\ messages[4].role = "model"

\* C15 (as claimed): a chunk whose uri cannot be parsed and that has no title
\* is dropped alone: whenever the provider answers, the call resolves and an
\* assistant turn is appended with the sources of the other chunks.
C15_MalformedRecordDropped ==
    [][(Settled /\ ~lastEvent'.resp.fails) =>
          /\ lastEvent'.ok
          /\ Len(messages') = Len(messages) + 1
          /\ Last(messages').role = "model"
          /\ Last(messages').sources =
                extractSources(SelectSeq(lastEvent'.resp.chunks,
                                         LAMBDA c : ~urlThrows(c))).sources
      ]_vars

\* C16: of a list of chunks whose uris are all well-formed, the extraction
\* returns one source per chunk that has a uri, in the order of the list and
\* with repetitions kept, with that uri and with the chunk's title when it has
\* one and the host of the uri otherwise; chunks without uri are dropped.
C16_ExtractWellFormed ==
    LET kept == SelectSeq(groundingChunks, LAMBDA c : c.uri # "")
    IN  (extracted.done /\ \A k \in 1..Len(kept) : WellFormed(kept[k].uri)) =>
            /\ ~extracted.threw
            /\ Len(extracted.sources) = Len(kept)
            /\ \A k \in 1..Len(kept) :
                 /\ extracted.sources[k].uri = kept[k].uri
                 /\ extracted.sources[k].title =
                       IF kept[k].title # "" THEN kept[k].title
                       ELSE hostname(kept[k].uri)

\* A list with the same untitled chunk twice, around a chunk without uri.
C16_Witness ==
    /\ extracted.done
    /\ groundingChunks = <<Untitled, NoUri, Untitled>>
    /\ extracted.sources =
         <<[uri |-> "https://congreso.gob.ar/ley", title |-> "congreso.gob.ar"],
           [uri |-> "https://congreso.gob.ar/ley", title |-> "congreso.gob.ar"]>>

IsSuffix(s, t) ==
    Len(s) <= Len(t) /\ SubSeq(t, Len(t) - Len(s) + 1, Len(t)) = s

Pieces(s) == {s[k] : k \in 1..Len(s)}

\* C17: the query of an accepted submit is the trimmed question alone when
\* country and state are both empty, and otherwise the question preceded by a
\* preamble that names each of the two that is not empty; it is fixed at the
\* submit, whatever the selectors are set to afterwards.
C17_EffectiveQuery ==
    [][/\ (Submitted /\ lastEvent'.ok) =>
            \E c \in inflight' :
               LET question == Last(messages').text
                   preamble == SubSeq(c.query, 1, Len(c.query) - Len(question))
               IN  /\ c.id = lastEvent'.call
                   /\ IsSuffix(question, c.query)
                   /\ (selectedCountry = "" /\ selectedState = "") =>
                          c.query = question
                   /\ (selectedCountry # "" \/ selectedState # "") =>
                          preamble # <<>>
                   /\ selectedCountry # "" => selectedCountry \in Pieces(preamble)
                   /\ selectedState # "" => selectedState \in Pieces(preamble)
       /\ \A c \in inflight, d \in inflight' : c.id = d.id => c.query = d.query
      ]_vars

\* A call in flight asked with the state alone, the box emptied since.
C17_Witness ==
    /\ selectedState = ""
    /\ \E c \in inflight :
         /\ "Madrid" \in Pieces(c.query)
         /\ "Argentina" \notin Pieces(c.query)
         /\ IsSuffix(<<"a">>, c.query)

\* C18: every settling call, resolved or rejected, leaves isLoading false;
\* and in every state with isLoading true the header's reset can run.
C18_SettlesOrResets ==
    [][/\ Settled => ~searchState'.isLoading
       /\ searchState.isLoading => ENABLED reset]_vars

\* A call settled and the session is no longer loading.
C18_Witness ==
    /\ lastEvent.op = "settled"
    /\ lastEvent.ok
    /\ ~searchState.isLoading
    /\ searchState.hasSearched

\* ---- playback
\* The contexts opened for turn k and not closed.
ContextsOf(k) == {c \in openContexts : c.turn = k}

\* The sources of turn k that are heard.
SourcesOf(k) == {s \in sounding : s.turn = k}

\* The step just taken is the handler op, run for turn k.
Handled(op, k) == lastEvent'.op = op /\ lastEvent'.call = k

\* The payload is a base64 string of an odd number of bytes.
OddPayload(result) ==
    /\ ~result.fails /\ ~result.none /\ result.valid
    /\ Len(result.binary) % 2 = 1

\* C11: a turn shown Idle holds no open audio context and no active source.
\* Refuted: onended leaves the context open, and the next handleSpeak
\* overwrites audioContextRef, so that the open contexts grow.
C11_IdleHoldsNoAudio ==
    \A k \in mounted :
        PlaybackState(k) = "Idle" => ContextsOf(k) = {} /\ SourcesOf(k) = {}

\* C12: at most one turn is Playing at any instant. Refuted: handleSpeak
\* knows its own ChatMessage only.
C12_AtMostOnePlaying ==
    Cardinality({k \in mounted : PlaybackState(k) = "Playing"}) <= 1

\* C13: speak on a Playing turn makes it Idle, silences it, and calls
\* generateSpeech no more.
C13_SpeakWhilePlayingStops ==
    [][\A k \in Speakers :
          Handled("handleSpeak", k) /\ PlaybackState(k) = "Playing"
          => /\ ~isLoadingAudio'[k] /\ ~isPlaying'[k]
             /\ \A s \in sounding' : s.turn # k
             /\ speech' = speech /\ spoken' = spoken]_vars

C13_Witness ==
    /\ lastEvent.op = "handleSpeak" /\ ~lastEvent.ok
    /\ PlaybackState(lastEvent.call) = "Idle"
    /\ SourcesOf(lastEvent.call) = {}
    /\ spoken >= 1

\* C14: a speak that fails leaves the turn Idle, nothing of what it acquired
\* open, and the session as it was. Refuted: the context created before
\* decode is open still when decode or pcmToAudioBuffer throws.
C14_FailedSpeakReleases ==
    [][\A k \in mounted :
          Handled("speechSettled", k) /\ ~lastEvent'.ok
          => /\ ~isLoadingAudio'[k] /\ ~isPlaying'[k]
             /\ ContextsOf(k)' \subseteq ContextsOf(k)
             /\ UNCHANGED <<messages, searchState, inputValue>>]_vars

\* C19: a turn moves Idle -> Loading -> Playing -> Idle or Loading -> Idle
\* only; speak on an Idle turn makes it Loading; the settled synthesis makes
\* it Playing on success and Idle on failure; a Playing turn becomes Idle.
PlaybackMoves ==
    {<<"Idle", "Loading">>, <<"Loading", "Playing">>, <<"Playing", "Idle">>,
     <<"Loading", "Idle">>}

C19_PlaybackLifecycle ==
    /\ [][\A k \in Speakers :
            /\ \/ PlaybackState(k)' = PlaybackState(k)
               \/ <<PlaybackState(k), PlaybackState(k)'>> \in PlaybackMoves
            /\ Handled("handleSpeak", k) /\ PlaybackState(k) = "Idle"
               => PlaybackState(k)' = "Loading"
            /\ Handled("speechSettled", k) /\ PlaybackState(k) = "Loading"
               => PlaybackState(k)' =
                     IF lastEvent'.ok THEN "Playing" ELSE "Idle"]_vars
    /\ \A k \in Speakers :
          PlaybackState(k) = "Playing" ~> PlaybackState(k) = "Idle"

C19_Witness ==
    /\ lastEvent.op = "onended" /\ ~lastEvent.stale
    /\ PlaybackState(lastEvent.call) = "Idle"
    /\ spoken >= 2

\* C20: a payload of an odd number of bytes is never played: no buffer, no
\* source started, the turn Idle.
C20_OddPayloadFails ==
    [][\A k \in Speakers :
          Handled("speechSettled", k) /\ OddPayload(lastEvent'.resp)
          => /\ pcmToAudioBuffer(decode(lastEvent'.resp).bytes).threw
             /\ ~lastEvent'.ok
             /\ sounding' = sounding
             /\ ~isLoadingAudio'[k] /\ ~isPlaying'[k]]_vars

C20_Witness ==
    /\ lastEvent.op = "speechSettled" /\ OddPayload(lastEvent.resp)
    /\ ~lastEvent.stale
    /\ PlaybackState(lastEvent.call) = "Idle"
    /\ SourcesOf(lastEvent.call) = {}

\* ---- conversion
\* The signed 16-bit integer whose little-endian bytes are lo, hi.
Signed16LE(lo, hi) == lo + 256 * (IF hi >= 128 THEN hi - 256 ELSE hi)

\* The distance between two integers.
Dist(a, b) == IF a >= b THEN a - b ELSE b - a

\* The samples are those of the byte pairs of data, in order: sample i is
\* the integer of pair i over 32768, and 32768 times it, rounded, is that
\* integer again.
SamplesOf(data, channelData) ==
    /\ Len(channelData) = Len(data) \div 2
    /\ \A i \in 1..Len(channelData) :
          LET n == Signed16LE(data[2 * i - 1], data[2 * i])
              sample == channelData[i]
          IN  /\ sample.num * 32768 = n * sample.den
              /\ Dist((sample.num * 32768) \div sample.den, n) <= 1

\* C21 as stated: every byte sequence of even length is converted to its
\* samples. Refuted by the sequence of length 0, for which createBuffer
\* throws.
C21_EvenLengthDecodes ==
    pcmResult.done /\ Len(pcmData) % 2 = 0
    => ~pcmResult.threw /\ SamplesOf(pcmData, pcmResult.channelData)

\* C21, amended: every byte sequence of even length other than 0 is
\* converted to its Len / 2 samples, in order, each the signed 16-bit
\* little-endian integer of its pair over 32768.
C21_NonEmptyEvenLengthDecodes ==
    pcmResult.done /\ Len(pcmData) % 2 = 0 /\ Len(pcmData) > 0
    => ~pcmResult.threw /\ SamplesOf(pcmData, pcmResult.channelData)

C21_Witness ==
    /\ pcmResult.done /\ ~pcmResult.threw
    /\ Len(pcmData) = 4
    /\ pcmData[2] = 128 /\ pcmData[4] = 127
    /\ pcmResult.channelData[1].num < 0
    /\ pcmResult.channelData[2].num > 0

\* ---- playback, continued
\* The generateSpeech calls of turn k that are awaited.
CallsOf(k) == {c \in speech : c.turn = k}

\* C22: a turn has at most one generateSpeech call in flight, and while it
\* is Loading no step starts another.
C22_OneSynthesisPerTurn ==
    [][\A k \in Speakers :
          /\ Cardinality(CallsOf(k)') <= 1
          /\ PlaybackState(k) = "Loading" => CallsOf(k)' \subseteq CallsOf(k)]_vars

C22_Witness ==
    /\ \A k \in Speakers :
          PlaybackState(k) = "Loading" /\ Cardinality(CallsOf(k)) = 1
    /\ lastEvent.op = "handleSpeak" /\ lastEvent.ok
    /\ spoken >= 2

\* C23: no two turns of the list have the same id. Refuted: the id of an
\* answer is Date.now() + 1, the id of the next question Date.now().
C23_UniqueIds ==
    \A i, j \in 1..Len(messages) :
        i # j => messages[i].id # messages[j].id

\* C24: no audio of a turn whose ChatMessage is unmounted is heard.
\* Refuted: handleSpeak resumes after its await whether or not the
\* component is mounted still, and starts a source nothing will stop.
C24_UnmountedTurnSilent ==
    \A k \in Speakers \ mounted : SourcesOf(k) = {}

\* C25: every assistant turn comes right after a user turn, the list
\* starting with a user turn. Refuted: the answer of a query submitted
\* before a reset is appended to the list the reset emptied (see C4).
C25_TurnsAlternate ==
    \A i \in 1..Len(messages) :
        messages[i].role = "model"
        => i > 1 /\ messages[i - 1].role = "user"

====
